---- MODULE Spec2Model ----
(***************************************************************************)
(* Model of crawl_prime: the CrawlPrimePipeline orchestrator (pipeline.py), *)
(* the URL-aware planner (planner.py) and the FastAPI application (api.py). *)
(*                                                                         *)
(* Python strings are modelled as sequences of one-character strings, so   *)
(* that splitting, integer parsing and formatting are computed rather than *)
(* assumed.                                                                *)
(***************************************************************************)
EXTENDS Integers, Sequences, FiniteSets, TLC

VARIABLES
    \* ---- CrawlPrimePipeline instance and its environment ----
    phase,             \* "new" | "ready" (constructor returned) | "failed" (constructor raised)
    neo4j,             \* self._neo4j
    graph_queries,     \* self._graph_queries
    graph_ingestor,    \* self._graph_ingestor
    storage,           \* self._storage
    retrieval_qdrant,  \* self._retrieval_qdrant
    retriever,         \* arguments self._retriever was built with (plus lexical settings)
    agentic,           \* arguments self._agentic was built with
    warned,            \* logger.warning("Neo4j unavailable ...") was emitted
    cfg,               \* constructor arguments of the call
    ctorError,         \* the exception that escaped the constructor ("none": it returned)
    conn,              \* state of every underlying backend connection
    released,          \* number of times each connection was released
    closeCalls,        \* number of close() calls each handle has received
    closes,            \* number of completed CrawlPrimePipeline.close() invocations
    closeOrder,        \* handles on which the latest close() called close, in order
    closeFailed,       \* handles whose close raised inside the latest close()
    closeRaised,       \* the latest close() let an exception escape
    scope,             \* position of a `with CrawlPrimePipeline(...)` block: "none" | "inside" | "exited"
    bodyError,         \* the body of the with block raised
    propagated,        \* that exception left the with statement
    lastCall,          \* the latest ingest()/query() call: arguments, sub-pipeline calls, outcome
    \* ---- prepend_web_ingestion_step call ----
    query,             \* argument query
    steps,             \* argument steps
    step_counter_start,\* argument step_counter_start
    called,            \* the function has been applied
    result,            \* what the call produced
    \* ---- api.py: the FastAPI application ----
    life,              \* lifespan(app): "down" | "serving" | "failed" | "stopped" | "aborted"
    jobs,              \* _jobs: job id -> job dict (NoJob: key not present)
    task,              \* the _run_ingest background task of each job
    lastPoll           \* latest response of GET /ingest/{job_id}

pipeVars == <<phase, neo4j, graph_queries, graph_ingestor, storage, retrieval_qdrant,
              retriever, agentic, warned, cfg, ctorError, conn, released, closeCalls,
              closes, closeOrder, closeFailed, closeRaised, scope, bodyError, propagated,
              lastCall>>
withVars == <<scope, bodyError, propagated>>
planVars == <<query, steps, step_counter_start, called, result>>
jobVars == <<jobs, task, lastPoll>>
apiVars == <<life, jobs, task, lastPoll>>
vars == <<pipeVars, planVars, apiVars>>

None == "None"

----------------------------------------------------------------------------
(* Bounds *)

\* close() invocations explored on one instance
MaxCloses == 2

----------------------------------------------------------------------------
(* CrawlPrimePipeline: construction *)

\* The calls inside the try block of __init__, in source order.
GraphSteps == <<"Neo4jConfig", "Neo4jManager_query", "GraphQueryInterface",
                "Neo4jManager_ingest", "GraphIngestionManager">>

\* Where the try block raises ("none": it completes).
GraphFailPoints == {"none"} \cup {GraphSteps[i] : i \in 1..Len(GraphSteps)}

\* Where the mandatory vector-store construction raises.
QdrantFailPoints == {"none", "ingestion", "retrieval"}

\* Fusion weights in tenths (0.3 is 3).
GraphWeights == {0, 3}
LexicalWeights == {-1, 0, 1}
VectorWeight == 6

StepIndex(s) == CHOOSE i \in 1..Len(GraphSteps) : GraphSteps[i] = s

\* The call named s returned normally when the block fails at gf.
Completed(gf, s) == gf = "none" \/ StepIndex(s) < StepIndex(gf)

Handles == {"storage", "retrieval_qdrant", "neo4j", "ingestor_neo4j"}
Conns == {"qdrant_ingest", "qdrant_retrieval", "neo4j_query", "neo4j_ingest"}

\* The connection a handle's close() releases.
HandleConn(h) ==
    CASE h = "storage" -> "qdrant_ingest"
      [] h = "retrieval_qdrant" -> "qdrant_retrieval"
      [] h = "neo4j" -> "neo4j_query"
      [] h = "ingestor_neo4j" -> "neo4j_ingest"

\* Variant: the configured weight is used whether or not the block failed.
GraphWeightAlways(gf, graph_weight) == graph_weight

\* _graph_weight after the try/except block.
EffectiveGraphWeight(gf, graph_weight) ==
    IF gf = "none" THEN graph_weight ELSE 0

\* self._neo4j, self._graph_queries, self._graph_ingestor after the block:
\* each is assigned when its constructor returns and never reset by except.
GraphFields(gf) ==
    [neo4j |-> IF Completed(gf, "Neo4jManager_query") THEN "neo4j" ELSE None,
     graph_queries |-> IF Completed(gf, "GraphQueryInterface") THEN "graph_queries" ELSE None,
     graph_ingestor |-> IF Completed(gf, "GraphIngestionManager") THEN "graph_ingestor" ELSE None]

\* Connections opened by the try block.
GraphConns(gf) ==
    {c \in {"neo4j_query"} : Completed(gf, "Neo4jManager_query")}
    \cup {c \in {"neo4j_ingest"} : Completed(gf, "Neo4jManager_ingest")}

\* Connections opened by the QdrantManager constructors that returned.
QdrantConns(qf) ==
    {c \in {"qdrant_ingest"} : qf # "ingestion"}
    \cup {c \in {"qdrant_retrieval"} : qf = "none"}

\* The exception leaving __init__: the try block's is caught by
\* "except Exception", the QdrantManager constructors are unguarded.
ConstructorError(gf, qf) ==
    IF qf # "none" THEN "QdrantManager" ELSE "none"

\* self._retriever before it is built: no lexical setting exists yet.
NoRetriever ==
    [built |-> FALSE, neo4j_manager |-> None, vector_weight |-> 0, graph_weight |-> 0,
     lexical_enabled |-> "default", lexical_weight |-> -1]

NoAgentic == [built |-> FALSE, graph_queries |-> None]

NoCfg == [graph_weight |-> 0, lexical_weight |-> 0]

\* What HybridRetriever.__init__ sets for lexical retrieval from its own
\* configuration: the constructor call passes no lexical argument, so either
\* setting of lexical_enabled can be in force when it returns.
HybridDefaults ==
    {[lexical_enabled |-> e, lexical_weight |-> 2] : e \in {"True", "False"}}

ConstructBody(gf, qf, graph_weight, lexical_weight, own) ==
    /\ phase = "new"
    /\ LET g == GraphFields(gf)
           opened == GraphConns(gf) \cup QdrantConns(qf)
       IN
       /\ cfg' = [graph_weight |-> graph_weight, lexical_weight |-> lexical_weight]
       /\ neo4j' = g.neo4j
       /\ graph_queries' = g.graph_queries
       /\ graph_ingestor' = g.graph_ingestor
       /\ warned' = (gf # "none")
       /\ conn' = [c \in Conns |-> IF c \in opened THEN "open" ELSE "none"]
       /\ storage' = IF qf = "ingestion" THEN None ELSE "storage"
       /\ retrieval_qdrant' = IF qf = "none" THEN "retrieval_qdrant" ELSE None
       /\ ctorError' = ConstructorError(gf, qf)
       /\ retriever' =
            IF ConstructorError(gf, qf) = "none"
            THEN [built |-> TRUE,
                  neo4j_manager |-> g.neo4j,
                  vector_weight |-> VectorWeight,
                  graph_weight |-> EffectiveGraphWeight(gf, graph_weight),
                  lexical_enabled |-> IF lexical_weight > 0 THEN "True"
                                      ELSE own.lexical_enabled,
                  lexical_weight |-> IF lexical_weight > 0 THEN lexical_weight
                                     ELSE own.lexical_weight]
            ELSE NoRetriever
       /\ agentic' =
            IF ConstructorError(gf, qf) = "none"
            THEN [built |-> TRUE, graph_queries |-> g.graph_queries]
            ELSE NoAgentic
       /\ phase' = IF ConstructorError(gf, qf) = "none" THEN "ready" ELSE "failed"
    /\ UNCHANGED <<released, closeCalls, closes, closeOrder, closeFailed, closeRaised>>
    /\ UNCHANGED withVars
    /\ UNCHANGED lastCall
    /\ UNCHANGED planVars
    /\ UNCHANGED jobVars

\* CrawlPrimePipeline(...) called on its own.
Construct(gf, qf, graph_weight, lexical_weight, own) ==
    /\ ConstructBody(gf, qf, graph_weight, lexical_weight, own)
    /\ UNCHANGED life

----------------------------------------------------------------------------
(* CrawlPrimePipeline: close *)

\* Variant: the two graph connections are closed before the vector-store handles.
HeldHandlesGraphFirst ==
    (IF neo4j # None THEN <<"neo4j">> ELSE <<>>)
    \o (IF graph_ingestor # None THEN <<"ingestor_neo4j">> ELSE <<>>)
    \o <<"storage">>
    \o (IF retrieval_qdrant # None THEN <<"retrieval_qdrant">> ELSE <<>>)

\* The handles close() calls close on, in source order; None entries are skipped.
\* getattr(self._graph_ingestor, "_neo4j_manager", None) is None when the
\* ingestor is None.
HeldHandles ==
    <<"storage">>
    \o (IF retrieval_qdrant # None THEN <<"retrieval_qdrant">> ELSE <<>>)
    \o (IF neo4j # None THEN <<"neo4j">> ELSE <<>>)
    \o (IF graph_ingestor # None THEN <<"ingestor_neo4j">> ELSE <<>>)

Range(s) == {s[i] : i \in 1..Len(s)}

\* Index of the first handle of held whose close raises (0: none raises).
FirstFailure(held, failing) ==
    IF \E i \in 1..Len(held) : held[i] \in failing
    THEN CHOOSE i \in 1..Len(held) :
            /\ held[i] \in failing
            /\ \A j \in 1..(i - 1) : held[j] \notin failing
    ELSE 0

\* Variant: one try block around all closes, so the first failure ends close().
CloseOutcomeAbort(held, failing) ==
    LET f == FirstFailure(held, failing)
    IN [attempts |-> IF f = 0 THEN held ELSE SubSeq(held, 1, f), raised |-> f # 0]

\* Every close sits in its own try/except Exception: pass.
CloseOutcome(held, failing) ==
    [attempts |-> held, raised |-> FALSE]

\* The body of close(): what it does to the handles and their connections.
CloseBody(failing) ==
    /\ LET out == CloseOutcome(HeldHandles, failing)
           tried == Range(out.attempts)
           ok == {HandleConn(h) : h \in tried \ failing}
       IN
       /\ closeOrder' = out.attempts
       /\ closeFailed' = tried \cap failing
       /\ closeRaised' = out.raised
       /\ closeCalls' = [h \in Handles |-> closeCalls[h] + IF h \in tried THEN 1 ELSE 0]
       /\ released' = [c \in Conns |->
                         released[c] + IF c \in ok /\ conn[c] = "open" THEN 1 ELSE 0]
       /\ conn' = [c \in Conns |-> IF c \in ok /\ conn[c] = "open" THEN "closed" ELSE conn[c]]
    /\ closes' = closes + 1
    /\ UNCHANGED <<phase, neo4j, graph_queries, graph_ingestor, storage, retrieval_qdrant,
                   retriever, agentic, warned, cfg, ctorError>>
    /\ UNCHANGED lastCall
    /\ UNCHANGED planVars
    /\ UNCHANGED jobVars

\* An explicit close(); inside a with block one invocation is left for __exit__.
Close(failing) ==
    /\ phase = "ready"
    /\ closes + (IF scope = "inside" THEN 1 ELSE 0) < MaxCloses
    /\ CloseBody(failing)
    /\ UNCHANGED withVars
    /\ UNCHANGED life

\* __enter__: returns self.
EnterWith ==
    /\ phase = "ready"
    /\ scope = "none"
    /\ closes < MaxCloses
    /\ scope' = "inside"
    /\ UNCHANGED <<bodyError, propagated>>
    /\ UNCHANGED <<phase, neo4j, graph_queries, graph_ingestor, storage, retrieval_qdrant,
                   retriever, agentic, warned, cfg, ctorError, conn, released, closeCalls,
                   closes, closeOrder, closeFailed, closeRaised>>
    /\ UNCHANGED lastCall
    /\ UNCHANGED planVars
    /\ UNCHANGED apiVars

\* Variant: __exit__ calls close() only when the body ended without an exception.
ExitWithCloseOnSuccessOnly(err, failing) ==
    /\ scope = "inside"
    /\ scope' = "exited"
    /\ bodyError' = err
    /\ propagated' = err
    /\ IF err
       THEN UNCHANGED <<phase, neo4j, graph_queries, graph_ingestor, storage,
                        retrieval_qdrant, retriever, agentic, warned, cfg, ctorError,
                        conn, released, closeCalls, closes, closeOrder, closeFailed,
                        closeRaised, lastCall, planVars, jobVars>>
       ELSE CloseBody(failing)
    /\ UNCHANGED life

\* __exit__(self, *_): the block is left, normally or with an exception (err);
\* close() runs either way, and the None it returns suppresses nothing.
ExitWith(err, failing) ==
    /\ scope = "inside"
    /\ scope' = "exited"
    /\ bodyError' = err
    /\ CloseBody(failing)
    /\ propagated' = (err /\ ~closeRaised')
    /\ UNCHANGED life

----------------------------------------------------------------------------
(* pipeline.py: ingest and query *)

\* What self._web_ingestion.ingest_url(url) can do: return a report (some chunks
\* stored, or none stored and a failure listed) or raise.
IngestUrlOutcomes ==
    {[raised |-> FALSE, chunks_ingested |-> 3, failed_documents |-> <<>>, error |-> "none"],
     [raised |-> FALSE, chunks_ingested |-> 0, failed_documents |-> <<"doc">>, error |-> "none"],
     [raised |-> TRUE, chunks_ingested |-> 0, failed_documents |-> <<>>, error |-> "CrawlError"]}

\* What self._agentic.process_query(...) can do: return a result or raise.
ProcessQueryOutcomes ==
    {[raised |-> FALSE, answer |-> "answer", error |-> "none"],
     [raised |-> TRUE, answer |-> "none", error |-> "AgentError"]}

Urls == {"url_a", "url_b"}
Texts == {"text"}
\* max_iterations: the default 2 and another value
MaxIterationsArgs == {1, 2}
\* min_quality_threshold in tenths: the default 0.5 and another value
MinQualityArgs == {5, 8}

NoCall ==
    [op |-> "none", args |-> <<>>, sub_calls |-> <<>>,
     sub |-> [raised |-> FALSE], out |-> [raised |-> FALSE]]

\* Variant: a report without chunks and with failures is turned into an error.
IngestCallRaisesOnTotalFailure(url, sub) ==
    [op |-> "ingest", args |-> <<url>>, sub_calls |-> <<<<url>>>>, sub |-> sub,
     out |-> IF ~sub.raised /\ sub.chunks_ingested = 0 /\ sub.failed_documents # <<>>
             THEN [sub EXCEPT !.raised = TRUE, !.error = "IngestionFailed"]
             ELSE sub]

\* ingest(url): one ingest_url(url); its report is returned, its exception propagates.
IngestCall(url, sub) ==
    [op |-> "ingest", args |-> <<url>>, sub_calls |-> <<<<url>>>>, sub |-> sub, out |-> sub]

\* query(text, max_iterations, min_quality_threshold): one process_query with the
\* same three arguments; its result is returned, its exception propagates.
QueryCall(text, max_iterations, min_quality_threshold, sub) ==
    [op |-> "query", args |-> <<text, max_iterations, min_quality_threshold>>,
     sub_calls |-> <<<<text, max_iterations, min_quality_threshold>>>>,
     sub |-> sub, out |-> sub]

Ingest(url, sub) ==
    /\ phase = "ready"
    /\ lastCall' = IngestCall(url, sub)
    /\ UNCHANGED <<phase, neo4j, graph_queries, graph_ingestor, storage, retrieval_qdrant,
                   retriever, agentic, warned, cfg, ctorError, conn, released, closeCalls,
                   closes, closeOrder, closeFailed, closeRaised>>
    /\ UNCHANGED withVars
    /\ UNCHANGED planVars
    /\ UNCHANGED apiVars

Query(text, max_iterations, min_quality_threshold, sub) ==
    /\ phase = "ready"
    /\ lastCall' = QueryCall(text, max_iterations, min_quality_threshold, sub)
    /\ UNCHANGED <<phase, neo4j, graph_queries, graph_ingestor, storage, retrieval_qdrant,
                   retriever, agentic, warned, cfg, ctorError, conn, released, closeCalls,
                   closes, closeOrder, closeFailed, closeRaised>>
    /\ UNCHANGED withVars
    /\ UNCHANGED planVars
    /\ UNCHANGED apiVars

STEP_PREFIX == <<"s", "t", "e", "p", "_">>
HTTP_SCHEME == <<"h", "t", "t", "p", ":", "/", "/">>
DESCRIPTION_PREFIX == <<"I", "n", "g", "e", "s", "t", " ", "w", "e", "b", " ", "c", "o", "n", "t", "e", "n", "t", " ", "f", "r", "o", "m", " ">>
SEE_URL_QUERY == <<"s", "e", "e", " ", "h", "t", "t", "p", ":", "/", "/", "a", ".", "b", "/", "c", ".">>
HTTPS_SCHEME == <<"h", "t", "t", "p", "s", ":", "/", "/">>
----------------------------------------------------------------------------
(* Strings: Python str values as sequences of one-character strings *)

DigitChars == <<"0", "1", "2", "3", "4", "5", "6", "7", "8", "9">>

IsDigit(c) == \E i \in 1..10 : DigitChars[i] = c

DigitVal(c) == (CHOOSE i \in 1..10 : DigitChars[i] = c) - 1

IsSpace(c) == c \in {" ", "\t", "\n"}

\* str.split('_')[-1]: what follows the last underscore (the whole string if none).
RECURSIVE LastSegment(_)
LastSegment(s) ==
    IF \E i \in 1..Len(s) : s[i] = "_"
    THEN LastSegment(Tail(s))
    ELSE s

RECURSIVE StripLeft(_)
StripLeft(s) == IF s # <<>> /\ IsSpace(Head(s)) THEN StripLeft(Tail(s)) ELSE s

RECURSIVE StripRight(_)
StripRight(s) ==
    IF s # <<>> /\ IsSpace(s[Len(s)]) THEN StripRight(SubSeq(s, 1, Len(s) - 1)) ELSE s

\* Value of a non-empty run of decimal digits.
RECURSIVE DigitsValue(_)
DigitsValue(s) ==
    IF s = <<>> THEN 0
    ELSE 10 * DigitsValue(SubSeq(s, 1, Len(s) - 1)) + DigitVal(s[Len(s)])

\* int(s): surrounding whitespace is ignored, one optional sign, then digits only;
\* anything else raises ValueError (ok = FALSE).
ParseInt(s) ==
    LET t == StripRight(StripLeft(s))
        signed == t # <<>> /\ Head(t) \in {"+", "-"}
        body == IF signed THEN Tail(t) ELSE t
        good == body # <<>> /\ \A i \in 1..Len(body) : IsDigit(body[i])
    IN [ok |-> good,
        val |-> IF ~good THEN 0
                ELSE IF signed /\ Head(t) = "-" THEN 0 - DigitsValue(body)
                ELSE DigitsValue(body)]

\* str(n) for n >= 0.
RECURSIVE NatDigits(_)
NatDigits(n) ==
    IF n < 10 THEN <<DigitChars[n + 1]>>
    ELSE NatDigits(n \div 10) \o <<DigitChars[(n % 10) + 1]>>

\* str(n) of an int.
IntStr(n) == IF n < 0 THEN <<"-">> \o NatDigits(0 - n) ELSE NatDigits(n)

\* f"step_{n}"
StepId(n) == STEP_PREFIX \o IntStr(n)

----------------------------------------------------------------------------
(* planner.py: URL detection *)

\* Length of the prefix of s made of non-whitespace characters (\S+ is greedy).
RECURSIVE NonSpaceRun(_)
NonSpaceRun(s) ==
    IF s = <<>> \/ IsSpace(Head(s)) THEN 0 ELSE 1 + NonSpaceRun(Tail(s))

StartsWith(s, p) == Len(s) >= Len(p) /\ SubSeq(s, 1, Len(p)) = p

\* Variant: the scheme alone is accepted as a match (\S* in place of \S+).
UrlMatchAtEmptyBody(s) ==
    IF StartsWith(s, HTTPS_SCHEME)
    THEN Len(HTTPS_SCHEME) + NonSpaceRun(SubSeq(s, Len(HTTPS_SCHEME) + 1, Len(s)))
    ELSE IF StartsWith(s, HTTP_SCHEME)
    THEN Len(HTTP_SCHEME) + NonSpaceRun(SubSeq(s, Len(HTTP_SCHEME) + 1, Len(s)))
    ELSE 0

\* Length of the match of https?://\S+ anchored at the start of s (0: no match).
UrlMatchAt(s) ==
    LET scheme == IF StartsWith(s, HTTPS_SCHEME) THEN Len(HTTPS_SCHEME)
                  ELSE IF StartsWith(s, HTTP_SCHEME) THEN Len(HTTP_SCHEME)
                  ELSE 0
        rest == IF scheme = 0 THEN 0 ELSE NonSpaceRun(SubSeq(s, scheme + 1, Len(s)))
    IN IF rest = 0 THEN 0 ELSE scheme + rest

\* Variant: the rightmost match is returned.
RECURSIVE UrlSearchLast(_)
UrlSearchLast(q) ==
    IF q = <<>> THEN [found |-> FALSE, text |-> <<>>]
    ELSE LET later == UrlSearchLast(Tail(q))
         IN IF later.found THEN later
            ELSE IF UrlMatchAt(q) > 0
            THEN [found |-> TRUE, text |-> SubSeq(q, 1, UrlMatchAt(q))]
            ELSE [found |-> FALSE, text |-> <<>>]

\* _URL_RE.search(query): the leftmost match, as [found, text].
RECURSIVE UrlSearch(_)
UrlSearch(q) ==
    IF q = <<>> THEN [found |-> FALSE, text |-> <<>>]
    ELSE IF UrlMatchAt(q) > 0 THEN [found |-> TRUE, text |-> SubSeq(q, 1, UrlMatchAt(q))]
    ELSE UrlSearch(Tail(q))

TrailingPunct == {".", ",", ";", ":", "!", "?", ")", "]", "'", "\"", "<", ">"}

\* Variant: at most one trailing punctuation character is dropped.
StripOneTrailingPunct(s) ==
    IF s # <<>> /\ s[Len(s)] \in TrailingPunct
    THEN SubSeq(s, 1, Len(s) - 1)
    ELSE s

\* _TRAILING_PUNCT_RE.sub("", s): drop the maximal trailing run of punctuation.
RECURSIVE StripTrailingPunct(_)
StripTrailingPunct(s) ==
    IF s # <<>> /\ s[Len(s)] \in TrailingPunct
    THEN StripTrailingPunct(SubSeq(s, 1, Len(s) - 1))
    ELSE s

----------------------------------------------------------------------------
(* planner.py: prepend_web_ingestion_step *)

\* Python None where a str is expected: no string has a four-character element.
NoneId == <<"None">>

NoResult == [raised |-> FALSE, steps |-> <<>>, web_step_id |-> NoneId]

\* PlanStep(step_id=..., step_type=WEB_INGESTION, description=..., parameters=...,
\* dependencies=[], execution_mode=SEQUENTIAL); the other fields take PlanStep's defaults.
WebStep(web_step_id, url) ==
    [step_id |-> web_step_id,
     step_type |-> "WEB_INGESTION",
     description |-> DESCRIPTION_PREFIX \o url,
     parameters |-> {<<"url", url>>},
     dependencies |-> <<>>,
     execution_mode |-> "SEQUENTIAL",
     estimated_time_ms |-> "default",
     estimated_cost |-> "default",
     priority |-> "default",
     required |-> "default",
     metadata |-> "default"]

\* Variant: the suffix is parsed and written back without the + 1.
BumpNoIncrement(step_id) ==
    LET n == ParseInt(LastSegment(step_id))
    IN [ok |-> n.ok, id |-> IF n.ok THEN StepId(n.val) ELSE NoneId]

\* Variant: an id whose suffix is not an integer is passed through as it is.
BumpKeepsMalformed(step_id) ==
    LET n == ParseInt(LastSegment(step_id))
    IN [ok |-> TRUE, id |-> IF n.ok THEN StepId(n.val + 1) ELSE step_id]

\* _bump(step_id): [ok, id]; ok is FALSE when int() raises ValueError.
Bump(step_id) ==
    LET n == ParseInt(LastSegment(step_id))
    IN [ok |-> n.ok, id |-> IF n.ok THEN StepId(n.val + 1) ELSE NoneId]

\* Variant: existing dependencies are copied without renumbering.
NewDepsNoRemap(step, web_step_id) ==
    IF step.step_type = "RETRIEVAL" /\ step.dependencies = <<>>
    THEN [ok |-> TRUE, deps |-> <<web_step_id>>]
    ELSE [ok |-> TRUE, deps |-> step.dependencies]

\* Variant: dependencies are renumbered but listed in reverse order.
NewDepsReversed(step, web_step_id) ==
    LET n == Len(step.dependencies)
    IN IF step.step_type = "RETRIEVAL" /\ n = 0
       THEN [ok |-> TRUE, deps |-> <<web_step_id>>]
       ELSE [ok |-> \A i \in 1..n : Bump(step.dependencies[i]).ok,
             deps |-> [i \in 1..n |-> Bump(step.dependencies[n + 1 - i]).id]]

\* Variant: every step without dependencies is wired to the new step, whatever its type.
NewDepsAllRoots(step, web_step_id) ==
    IF step.dependencies = <<>>
    THEN [ok |-> TRUE, deps |-> <<web_step_id>>]
    ELSE [ok |-> \A i \in 1..Len(step.dependencies) : Bump(step.dependencies[i]).ok,
          deps |-> [i \in 1..Len(step.dependencies) |-> Bump(step.dependencies[i]).id]]

\* The dependency list of the renumbered copy of step, as [ok, deps].
NewDeps(step, web_step_id) ==
    IF step.step_type = "RETRIEVAL" /\ step.dependencies = <<>>
    THEN [ok |-> TRUE, deps |-> <<web_step_id>>]
    ELSE [ok |-> \A i \in 1..Len(step.dependencies) : Bump(step.dependencies[i]).ok,
          deps |-> [i \in 1..Len(step.dependencies) |-> Bump(step.dependencies[i]).id]]

\* Variant: the copy is built without execution_mode and metadata, which then
\* take the constructor's defaults.
RenumberDropsFields(step, web_step_id) ==
    LET new_id == Bump(step.step_id)
        d == NewDeps(step, web_step_id)
    IN [ok |-> new_id.ok /\ d.ok,
        step |-> [step EXCEPT !.step_id = new_id.id, !.dependencies = d.deps,
                              !.execution_mode = "default", !.metadata = "default"]]

\* One iteration of the renumbering loop, as [ok, step].
Renumber(step, web_step_id) ==
    LET new_id == Bump(step.step_id)
        d == NewDeps(step, web_step_id)
    IN [ok |-> new_id.ok /\ d.ok,
        step |-> [step EXCEPT !.step_id = new_id.id, !.dependencies = d.deps]]

\* Variant: the new step is placed after the renumbered steps.
PrependWebIngestionStepAppended(q, st, n) ==
    LET url_match == UrlSearch(q)
        url == StripTrailingPunct(url_match.text)
        web_step_id == StepId(n)
        renumbered == [i \in 1..Len(st) |-> Renumber(st[i], web_step_id)]
    IN IF ~url_match.found
       THEN [raised |-> FALSE, steps |-> st, web_step_id |-> NoneId]
       ELSE IF \E i \in 1..Len(st) : ~renumbered[i].ok
       THEN [raised |-> TRUE, steps |-> <<>>, web_step_id |-> NoneId]
       ELSE [raised |-> FALSE,
             steps |-> [i \in 1..Len(st) |-> renumbered[i].step]
                        \o <<WebStep(web_step_id, url)>>,
             web_step_id |-> web_step_id]

\* prepend_web_ingestion_step(query, steps, step_counter_start): the returned
\* pair, or raised = TRUE when a ValueError leaves the call.
PrependWebIngestionStep(q, st, n) ==
    LET url_match == UrlSearch(q)
        url == StripTrailingPunct(url_match.text)
        web_step_id == StepId(n)
        renumbered == [i \in 1..Len(st) |-> Renumber(st[i], web_step_id)]
    IN IF ~url_match.found
       THEN [raised |-> FALSE, steps |-> st, web_step_id |-> NoneId]
       ELSE IF \E i \in 1..Len(st) : ~renumbered[i].ok
       THEN [raised |-> TRUE, steps |-> <<>>, web_step_id |-> NoneId]
       ELSE [raised |-> FALSE,
             steps |-> <<WebStep(web_step_id, url)>>
                        \o [i \in 1..Len(st) |-> renumbered[i].step],
             web_step_id |-> web_step_id]

\* Variant: the renumbered steps are written back into the caller's list.
RewriteInPlace ==
    /\ ~called
    /\ called' = TRUE
    /\ result' = PrependWebIngestionStep(query, steps, step_counter_start)
    /\ steps' = IF result'.web_step_id # NoneId THEN Tail(result'.steps) ELSE steps
    /\ UNCHANGED <<query, step_counter_start>>
    /\ UNCHANGED pipeVars
    /\ UNCHANGED apiVars

Rewrite ==
    /\ ~called
    /\ called' = TRUE
    /\ result' = PrependWebIngestionStep(query, steps, step_counter_start)
    /\ UNCHANGED <<query, steps, step_counter_start>>
    /\ UNCHANGED pipeVars
    /\ UNCHANGED apiVars

----------------------------------------------------------------------------
(* Inputs of the planner specification *)

\* longest input plan
MaxSteps == 2
\* largest step_counter_start
MaxCounter == 1

STEP_0 == StepId(0)
STEP_1 == StepId(1)
\* a non-canonical spelling of 1: int("01") = 1
STEP_01 == STEP_PREFIX \o <<"0", "1">>

IdPool == {STEP_0, STEP_1, STEP_01}

\* Duplicate-free lists over a set of ids.
Perms(S) ==
    UNION {{f \in [1..k -> S] : \A i, j \in 1..k : i # j => f[i] # f[j]} :
            k \in 0..Cardinality(S)}

\* Fields the rewrite copies through, fixed per step type.
Template(type) ==
    IF type = "RETRIEVAL"
    THEN [description |-> <<"r">>, parameters |-> {<<"top_k", <<"5">>>>},
          execution_mode |-> "PARALLEL", estimated_time_ms |-> "t200",
          estimated_cost |-> "c1", priority |-> "p2", required |-> "True",
          metadata |-> "m_r"]
    ELSE [description |-> <<"s">>, parameters |-> {},
          execution_mode |-> "SEQUENTIAL", estimated_time_ms |-> "t900",
          estimated_cost |-> "c5", priority |-> "p1", required |-> "False",
          metadata |-> "m_s"]

MkStep(id, type, deps) ==
    LET t == Template(type)
    IN [step_id |-> id, step_type |-> type, description |-> t.description,
        parameters |-> t.parameters, dependencies |-> deps,
        execution_mode |-> t.execution_mode, estimated_time_ms |-> t.estimated_time_ms,
        estimated_cost |-> t.estimated_cost, priority |-> t.priority,
        required |-> t.required, metadata |-> t.metadata]

\* A step never lists its own id (data model), and a list names an id once.
StepPool ==
    {MkStep(id, type, deps) :
        id \in IdPool, type \in {"RETRIEVAL", "SYNTHESIS"}, deps \in Perms(IdPool)}

ValidStep(st) == \A i \in 1..Len(st.dependencies) : st.dependencies[i] # st.step_id

PlanPool == UNION {[1..k -> {st \in StepPool : ValidStep(st)}] : k \in 0..MaxSteps}

\* "see http://a.b/c."
PlanQueries == {SEE_URL_QUERY}

----------------------------------------------------------------------------
(* api.py: ingest jobs *)

\* jobs submitted in one run of the application
MaxJobs == 2

\* The hex strings uuid.uuid4() can return.
JobIds == 1..MaxJobs

\* No entry under a job id in _jobs; keys is the set of keys of the job dict.
NoJob ==
    [keys |-> {}, status |-> "absent", url |-> "none",
     chunks_ingested |-> 0, failed |-> <<>>, error |-> "none"]

\* Variant: the entry is created with status "running".
NewJobRunning(url) ==
    [NoJob EXCEPT !.keys = {"status", "url"}, !.status = "running", !.url = url]

\* {"status": "pending", "url": request.url}
NewJob(url) ==
    [NoJob EXCEPT !.keys = {"status", "url"}, !.status = "pending", !.url = url]

NoIngestOutcome ==
    [raised |-> FALSE, chunks_ingested |-> 0, failed_documents |-> <<>>, error |-> "none"]

\* A background task: pc is "none" | "queued" | "awaiting" | "finished", url its
\* argument, outcome what pipeline.ingest(url) did, raised whether an exception
\* left _run_ingest.
NoTask == [pc |-> "none", url |-> "none", outcome |-> NoIngestOutcome, raised |-> FALSE]

NoPoll == [code |-> 0, job_id |-> 0, body |-> NoJob]

\* POST /ingest: a fresh uuid4 job id, the pending entry, the queued task.
Submit(j, url) ==
    /\ jobs[j] = NoJob
    /\ jobs' = [jobs EXCEPT ![j] = NewJob(url)]
    /\ task' = [task EXCEPT ![j] = [NoTask EXCEPT !.pc = "queued", !.url = url]]
    /\ UNCHANGED <<life, lastPoll>>
    /\ UNCHANGED <<pipeVars, planVars>>

\* _run_ingest up to its await: _jobs[job_id]["status"] = "running".
TaskStart(j) ==
    /\ task[j].pc = "queued"
    /\ jobs' = [jobs EXCEPT ![j].status = "running"]
    /\ task' = [task EXCEPT ![j].pc = "awaiting"]
    /\ UNCHANGED <<life, lastPoll>>
    /\ UNCHANGED <<pipeVars, planVars>>

\* Variant: a report without chunks and with failures is recorded as an error.
RunIngestResultErrorOnNoChunks(job, sub) ==
    IF ~sub.raised /\ ~(sub.chunks_ingested = 0 /\ sub.failed_documents # <<>>)
    THEN [job |-> [job EXCEPT !.keys = @ \cup {"chunks_ingested", "failed"},
                              !.status = "done",
                              !.chunks_ingested = sub.chunks_ingested,
                              !.failed = sub.failed_documents],
          raised |-> FALSE]
    ELSE [job |-> [job EXCEPT !.keys = @ \cup {"error"},
                              !.status = "error",
                              !.error = IF sub.raised THEN sub.error ELSE "no chunks"],
          raised |-> FALSE]

\* The try/except of _run_ingest once pipeline.ingest(url) has returned a report
\* or raised (sub): the updated job dict and whether an exception leaves the task.
RunIngestResult(job, sub) ==
    IF ~sub.raised
    THEN [job |-> [job EXCEPT !.keys = @ \cup {"chunks_ingested", "failed"},
                              !.status = "done",
                              !.chunks_ingested = sub.chunks_ingested,
                              !.failed = sub.failed_documents],
          raised |-> FALSE]
    ELSE [job |-> [job EXCEPT !.keys = @ \cup {"error"},
                              !.status = "error",
                              !.error = sub.error],
          raised |-> FALSE]

\* Variant: no except clause, so an exception of pipeline.ingest leaves the task
\* and the job is not updated.
TaskFinishUncaught(j, sub) ==
    /\ task[j].pc = "awaiting"
    /\ LET r == RunIngestResult(jobs[j], sub)
       IN /\ jobs' = IF sub.raised THEN jobs ELSE [jobs EXCEPT ![j] = r.job]
          /\ task' = [task EXCEPT ![j] = [@ EXCEPT !.pc = "finished", !.outcome = sub,
                                                   !.raised = sub.raised]]
    /\ UNCHANGED <<life, lastPoll>>
    /\ UNCHANGED <<pipeVars, planVars>>

\* _run_ingest from the completion of `await pipeline.ingest(url)` to its end.
TaskFinish(j, sub) ==
    /\ task[j].pc = "awaiting"
    /\ LET r == RunIngestResult(jobs[j], sub)
       IN /\ jobs' = [jobs EXCEPT ![j] = r.job]
          /\ task' = [task EXCEPT ![j] = [@ EXCEPT !.pc = "finished", !.outcome = sub,
                                                   !.raised = r.raised]]
    /\ UNCHANGED <<life, lastPoll>>
    /\ UNCHANGED <<pipeVars, planVars>>

\* GET /ingest/{job_id}: 404 for an unknown id, else the job dict as it is now.
Poll(j) ==
    /\ lastPoll' = IF jobs[j] = NoJob
                   THEN [code |-> 404, job_id |-> j, body |-> NoJob]
                   ELSE [code |-> 200, job_id |-> j, body |-> jobs[j]]
    /\ UNCHANGED <<life, jobs, task>>
    /\ UNCHANGED <<pipeVars, planVars>>

----------------------------------------------------------------------------
(* api.py: lifespan *)

\* CrawlPrimePipeline() is called with its defaults (weights in tenths).
DefaultGraphWeight == 3
DefaultLexicalWeight == 1

\* lifespan up to its yield: app.state.pipeline = CrawlPrimePipeline().
Startup(gf, qf, own) ==
    /\ life = "down"
    /\ ConstructBody(gf, qf, DefaultGraphWeight, DefaultLexicalWeight, own)
    /\ life' = IF ConstructorError(gf, qf) = "none" THEN "serving" ELSE "failed"

\* lifespan from its yield on: resumed normally it calls close(); resumed with
\* an exception (err) the generator ends at the yield.
Shutdown(err, failing) ==
    /\ life = "serving"
    /\ IF err
       THEN /\ life' = "aborted"
            /\ UNCHANGED <<pipeVars, planVars, jobVars>>
       ELSE /\ life' = "stopped"
            /\ CloseBody(failing)
            /\ UNCHANGED withVars

ApiIdle ==
    /\ life = "down"
    /\ jobs = [j \in JobIds |-> NoJob]
    /\ task = [j \in JobIds |-> NoTask]
    /\ lastPoll = NoPoll

----------------------------------------------------------------------------
(* Specifications *)

PlanIdle ==
    /\ query = <<>>
    /\ steps = <<>>
    /\ step_counter_start = 0
    /\ called = FALSE
    /\ result = NoResult

PipelineIdle ==
    /\ phase = "new"
    /\ neo4j = None
    /\ graph_queries = None
    /\ graph_ingestor = None
    /\ storage = None
    /\ retrieval_qdrant = None
    /\ retriever = NoRetriever
    /\ agentic = NoAgentic
    /\ warned = FALSE
    /\ cfg = NoCfg
    /\ ctorError = "none"
    /\ conn = [c \in Conns |-> "none"]
    /\ released = [c \in Conns |-> 0]
    /\ closeCalls = [h \in Handles |-> 0]
    /\ closes = 0
    /\ closeOrder = <<>>
    /\ closeFailed = {}
    /\ closeRaised = FALSE
    /\ scope = "none"
    /\ bodyError = FALSE
    /\ propagated = FALSE
    /\ lastCall = NoCall

InitPipeline == PipelineIdle /\ PlanIdle /\ ApiIdle

NextPipeline ==
    \/ \E gf \in GraphFailPoints, qf \in QdrantFailPoints,
          gw \in GraphWeights, lw \in LexicalWeights, own \in HybridDefaults :
              Construct(gf, qf, gw, lw, own)
    \/ \E failing \in SUBSET Handles : Close(failing)
    \/ EnterWith
    \/ \E err \in BOOLEAN, failing \in SUBSET Handles : ExitWith(err, failing)

SpecPipeline == InitPipeline /\ [][NextPipeline]_vars

\* Construction followed by ingest() and query() calls on the instance.
NextCalls ==
    \/ \E gf \in GraphFailPoints, qf \in QdrantFailPoints,
          gw \in GraphWeights, lw \in LexicalWeights, own \in HybridDefaults :
              Construct(gf, qf, gw, lw, own)
    \/ \E url \in Urls, sub \in IngestUrlOutcomes : Ingest(url, sub)
    \/ \E text \in Texts, mi \in MaxIterationsArgs, mq \in MinQualityArgs,
          sub \in ProcessQueryOutcomes : Query(text, mi, mq, sub)

SpecCalls == InitPipeline /\ [][NextCalls]_vars

InitPlanner ==
    /\ query \in PlanQueries
    /\ steps \in PlanPool
    /\ step_counter_start \in 0..MaxCounter
    /\ called = FALSE
    /\ result = NoResult
    /\ PipelineIdle
    /\ ApiIdle

NextPlanner == Rewrite

SpecPlanner == InitPlanner /\ [][NextPlanner]_vars

\* Queries of the URL specification: prefix, body, tail and rest, concatenated.
\* "", "x", "see ", "http:// " (a scheme with nothing after it)
UrlPrefixes ==
    {<<>>,
     <<"x">>,
     <<"s", "e", "e", " ">>,
     <<"h", "t", "t", "p", ":", "/", "/", " ">>}

\* "", "http://a.b", "https://c.d/e).", "ftp://e", "http://", "HTTP://f", "https:// g"
UrlBodies ==
    {<<>>,
     <<"h", "t", "t", "p", ":", "/", "/", "a", ".", "b">>,
     <<"h", "t", "t", "p", "s", ":", "/", "/", "c", ".", "d", "/", "e", ")", ".">>,
     <<"f", "t", "p", ":", "/", "/", "e">>,
     <<"h", "t", "t", "p", ":", "/", "/">>,
     <<"H", "T", "T", "P", ":", "/", "/", "f">>,
     <<"h", "t", "t", "p", "s", ":", "/", "/", " ", "g">>}

\* characters that may end the body: the punctuation of _TRAILING_PUNCT_RE and
\* some characters outside it
UrlTailChars == TrailingPunct \cup {"/", "(", "x", " "}

\* longest run of characters appended to the body
MaxTail == 1

UrlTails == UNION {[1..k -> UrlTailChars] : k \in 0..MaxTail}

\* "", " https://z,", "y"
UrlPosts ==
    {<<>>,
     <<" ", "h", "t", "t", "p", "s", ":", "/", "/", "z", ",">>,
     <<"y">>}

UrlQueries ==
    {p \o b \o t \o r : p \in UrlPrefixes, b \in UrlBodies, t \in UrlTails, r \in UrlPosts}

\* an id whose last segment is not an integer
STEP_X == STEP_PREFIX \o <<"x">>

UrlPlans ==
    {<<>>,
     <<MkStep(STEP_0, "RETRIEVAL", <<>>)>>,
     <<MkStep(STEP_X, "SYNTHESIS", <<STEP_0>>)>>,
     <<MkStep(STEP_0, "RETRIEVAL", <<STEP_X>>)>>,
     <<MkStep(STEP_PREFIX, "RETRIEVAL", <<>>)>>,
     <<MkStep(STEP_0, "RETRIEVAL", <<>>), MkStep(STEP_1, "SYNTHESIS", <<STEP_X>>)>>}

InitUrl ==
    /\ query \in UrlQueries
    /\ steps \in UrlPlans
    /\ step_counter_start \in {0, MaxCounter}
    /\ called = FALSE
    /\ result = NoResult
    /\ PipelineIdle
    /\ ApiIdle

NextUrl == Rewrite

SpecUrl == InitUrl /\ [][NextUrl]_vars

\* The application's job endpoints and background tasks, in any interleaving.
NextJobs ==
    \/ \E j \in JobIds, url \in Urls : Submit(j, url)
    \/ \E j \in JobIds : TaskStart(j)
    \/ \E j \in JobIds, sub \in IngestUrlOutcomes : TaskFinish(j, sub)
    \/ \E j \in JobIds : Poll(j)

SpecJobs == InitPipeline /\ [][NextJobs]_vars

\* The event loop runs every queued task, and every awaited pipeline.ingest
\* returns or raises.
JobsFairness ==
    \A j \in JobIds :
        /\ WF_vars(TaskStart(j))
        /\ WF_vars(\E sub \in IngestUrlOutcomes : TaskFinish(j, sub))

SpecJobsLive == SpecJobs /\ JobsFairness

\* Start and stop of the application, and the calls its handlers and tasks make
\* on app.state.pipeline.
NextLifespan ==
    \/ \E gf \in GraphFailPoints, qf \in QdrantFailPoints, own \in HybridDefaults :
          Startup(gf, qf, own)
    \/ \E err \in BOOLEAN, failing \in SUBSET Handles : Shutdown(err, failing)
    \/ \E url \in Urls, sub \in IngestUrlOutcomes : Ingest(url, sub)
    \/ \E text \in Texts, mi \in MaxIterationsArgs, mq \in MinQualityArgs,
          sub \in ProcessQueryOutcomes : Query(text, mi, mq, sub)

SpecLifespan == InitPipeline /\ [][NextLifespan]_vars

----------------------------------------------------------------------------
(* Orchestrator lifecycle: properties *)

\* C1: over two close() invocations on one instance no close() raises and no
\* handle receives more than one close call in total.
C1_AtMostOneCloseCallPerHandle ==
    /\ ~closeRaised
    /\ \A h \in Handles : closeCalls[h] <= 1

\* C2: after construction returned (graph available, unavailable or failing
\* part-way) and one close() in which no handle's close failed, every connection
\* that construction opened has been released exactly once.
C2_EveryConnectionClosedExactlyOnce ==
    (phase = "ready" /\ closes = 1 /\ closeFailed = {})
        => \A c \in Conns : conn[c] # "none" => (conn[c] = "closed" /\ released[c] = 1)

\* C3: when the constructor fails because a vector-store handle could not be
\* built, no connection opened earlier in that constructor call is left open.
C3_NoConnectionLeftOpenOnFailedConstruction ==
    (phase = "failed" /\ ctorError = "QdrantManager")
        => \A c \in Conns : conn[c] # "open"

\* C4: a failure while building the graph handles never leaves the constructor
\* (only a vector-store failure does); construction then still builds the vector
\* handles and the sub-pipelines and passes graph weight 0 to the retriever,
\* whatever was configured; without a failure the configured weight is passed.
C4_GraphFailureContained ==
    /\ phase = "failed" => ctorError = "QdrantManager"
    /\ ctorError = "none" /\ phase # "new" => phase = "ready"
    /\ (phase = "ready" /\ warned)
          => /\ storage # None /\ retrieval_qdrant # None
             /\ retriever.built /\ agentic.built
             /\ retriever.graph_weight = 0
    /\ (phase = "ready" /\ ~warned) => retriever.graph_weight = cfg.graph_weight

C4_Witness ==
    /\ phase = "ready" /\ warned
    /\ cfg.graph_weight > 0
    /\ retriever.graph_weight = 0

\* C5: after a constructor call in which building the graph handles failed, the
\* query-side manager, the query interface and the ingestor are all None, so the
\* retriever and the agentic pipeline receive no graph handle; every constructed
\* instance has all graph handles (configured weight) or none (weight 0).
C5_GraphHandlesAllOrNone ==
    phase = "ready" =>
        \/ /\ ~warned
           /\ neo4j # None /\ graph_queries # None /\ graph_ingestor # None
           /\ retriever.graph_weight = cfg.graph_weight
        \/ /\ warned
           /\ neo4j = None /\ graph_queries = None /\ graph_ingestor = None
           /\ retriever.neo4j_manager = None /\ agentic.graph_queries = None
           /\ retriever.graph_weight = 0

\* C6: close() never raises, and whichever handles fail to close, every handle
\* the instance holds has received a close call in each close() invocation.
C6_CloseAttemptsEveryHandle ==
    closes > 0 =>
        /\ ~closeRaised
        /\ \A h \in Range(HeldHandles) :
              h \in Range(closeOrder) /\ closeCalls[h] = closes

C6_Witness ==
    /\ closes = 1
    /\ closeFailed = {"storage", "neo4j"}
    /\ closeCalls["retrieval_qdrant"] = 1
    /\ closeCalls["ingestor_neo4j"] = 1

----------------------------------------------------------------------------
(* Plan rewriting: properties *)

StepIds(P) == {P[i].step_id : i \in 1..Len(P)}

DistinctIds(P) == \A i, j \in 1..Len(P) : i # j => P[i].step_id # P[j].step_id

\* Integer suffix of an id, as int(id.split('_')[-1]) reads it.
Suffix(id) == ParseInt(LastSegment(id)).val

DistinctSuffixes(P) ==
    \A i, j \in 1..Len(P) : i # j => Suffix(P[i].step_id) # Suffix(P[j].step_id)

NoSuffix(P, k) == \A i \in 1..Len(P) : Suffix(P[i].step_id) # k

\* The ids a step of P with id a depends on.
DepsOf(P, a) ==
    UNION {Range(P[i].dependencies) : i \in {j \in 1..Len(P) : P[j].step_id = a}}

\* Ids reachable from the ids in frontier along dependencies.
RECURSIVE Reach(_, _, _)
Reach(P, frontier, seen) ==
    IF frontier \subseteq seen THEN seen
    ELSE Reach(P, UNION {DepsOf(P, a) : a \in frontier}, seen \cup frontier)

\* No id depends on itself, directly or through other steps.
Acyclic(P) == \A a \in StepIds(P) : a \notin Reach(P, DepsOf(P, a), {})

\* P with every id replaced by its integer suffix.
BySuffix(P) ==
    [i \in 1..Len(P) |->
        [step_id |-> Suffix(P[i].step_id),
         dependencies |-> [k \in 1..Len(P[i].dependencies) |->
                              Suffix(P[i].dependencies[k])]]]

\* Every dependency names a step of P.
Closed(P) == \A i \in 1..Len(P) : Range(P[i].dependencies) \subseteq StepIds(P)

\* Every step id and dependency id of P is spelled step_<k>, k in decimal without
\* sign or leading zeros.
CanonicalIds(P) ==
    \A i \in 1..Len(P) :
        /\ P[i].step_id = StepId(Suffix(P[i].step_id))
        /\ \A k \in 1..Len(P[i].dependencies) :
              P[i].dependencies[k] = StepId(Suffix(P[i].dependencies[k]))

Returned == called /\ ~result.raised /\ result.web_step_id # NoneId

\* C7 as stated: pairwise distinct input ids (here already of the form step_<k>)
\* give pairwise distinct output ids, for every counter value.
C7_DistinctIdsPreserved ==
    (Returned /\ CanonicalIds(steps) /\ DistinctIds(steps)) => DistinctIds(result.steps)

\* C7 amended: the output ids are pairwise distinct exactly when the input ids
\* have pairwise distinct integer suffixes, none of them step_counter_start - 1.
C7_DistinctIffSuffixesDistinct ==
    Returned =>
        (DistinctIds(result.steps)
            <=> (DistinctSuffixes(steps) /\ NoSuffix(steps, step_counter_start - 1)))

C7_Witness ==
    /\ Returned
    /\ Len(steps) = 2
    /\ DistinctSuffixes(steps) /\ NoSuffix(steps, step_counter_start - 1)
    /\ DistinctIds(result.steps)

\* C8 as stated: an acyclic input plan (here already with ids of the form
\* step_<k>) gives an acyclic output plan, for every counter value.
C8_AcyclicPreserved ==
    (Returned /\ CanonicalIds(steps) /\ Acyclic(steps)) => Acyclic(result.steps)

\* C8 amended: when the input plan is acyclic with ids compared by their integer
\* suffix and no step id has suffix step_counter_start - 1, the output plan has
\* no dependency cycle and no step depends on itself.
C8_AcyclicWhenSuffixesAcyclic ==
    (Returned /\ Acyclic(BySuffix(steps)) /\ NoSuffix(steps, step_counter_start - 1))
        => /\ Acyclic(result.steps)
           /\ \A i \in 1..Len(result.steps) :
                 result.steps[i].step_id \notin Range(result.steps[i].dependencies)

C8_Witness ==
    /\ Returned
    /\ Len(steps) = 2
    /\ steps[1].dependencies = <<steps[2].step_id>>
    /\ steps[2].step_type = "RETRIEVAL" /\ steps[2].dependencies = <<>>
    /\ Acyclic(BySuffix(steps)) /\ NoSuffix(steps, step_counter_start - 1)
    /\ Acyclic(result.steps)

\* C9: when every dependency of the input plan names a step of the input plan,
\* every dependency of the output plan names a step of the output plan.
C9_DependenciesResolve ==
    (Returned /\ Closed(steps)) => Closed(result.steps)

C9_Witness ==
    /\ Returned
    /\ Len(steps) = 2
    /\ Closed(steps)
    /\ steps[1].dependencies = <<steps[2].step_id>>
    /\ steps[2].step_type = "RETRIEVAL" /\ steps[2].dependencies = <<>>
    /\ result.steps[3].dependencies = <<result.steps[1].step_id>>
    /\ Closed(result.steps)

\* C10: renumbering relabels the dependency graph: each input step sits one
\* position later with its suffix increased by 1; where input step A's k-th
\* dependency is input step B's id, the k-th dependency of A's copy is the id of
\* B's copy; a non-empty dependency list keeps its length and every entry's
\* suffix grows by 1.
C10_PureRelabeling ==
    Returned =>
        /\ Len(result.steps) = Len(steps) + 1
        /\ \A i \in 1..Len(steps) :
              LET in == steps[i]
                  out == result.steps[i + 1]
              IN /\ Suffix(out.step_id) = Suffix(in.step_id) + 1
                 /\ out.step_type = in.step_type
                 /\ in.dependencies # <<>> =>
                       /\ Len(out.dependencies) = Len(in.dependencies)
                       /\ \A k \in 1..Len(in.dependencies) :
                             /\ Suffix(out.dependencies[k]) = Suffix(in.dependencies[k]) + 1
                             /\ \A j \in 1..Len(steps) :
                                   in.dependencies[k] = steps[j].step_id
                                      => out.dependencies[k] = result.steps[j + 1].step_id

C10_Witness ==
    /\ Returned
    /\ Len(steps) = 2
    /\ Len(steps[1].dependencies) = 2
    /\ steps[1].dependencies[1] = steps[2].step_id
    /\ result.steps[2].dependencies[1] = result.steps[3].step_id
    /\ result.steps[2].dependencies[1] # result.steps[2].dependencies[2]

\* The copy of input step i has exactly the new step's id as its dependency list
\* when the step is a RETRIEVAL step without dependencies, and otherwise exactly
\* its original list with every suffix increased by 1.
ExactDeps(i) ==
    LET in == steps[i]
        out == result.steps[i + 1]
    IN IF in.step_type = "RETRIEVAL" /\ in.dependencies = <<>>
       THEN out.dependencies = <<result.web_step_id>>
       ELSE /\ Len(out.dependencies) = Len(in.dependencies)
            /\ \A k \in 1..Len(in.dependencies) :
                  out.dependencies[k] = StepId(Suffix(in.dependencies[k]) + 1)

\* The copy of input step i lists the new step's id exactly when the step is a
\* RETRIEVAL step without dependencies.
GainsIffRetrievalRoot(i) ==
    (result.web_step_id \in Range(result.steps[i + 1].dependencies))
        <=> (steps[i].step_type = "RETRIEVAL" /\ steps[i].dependencies = <<>>)

\* C11 as stated (on ids of the form step_<k>): a step depends on the new step
\* exactly when it is a RETRIEVAL step whose list was empty, its list then being
\* [new id]; every other list is the +1 remapping and nothing more.
C11_GainsIffRetrievalRoot ==
    (Returned /\ CanonicalIds(steps))
        => \A i \in 1..Len(steps) : ExactDeps(i) /\ GainsIffRetrievalRoot(i)

\* C11 amended: the lists are exactly as C11 says, and a step lists the new
\* step's id exactly when it is a RETRIEVAL step whose list was empty, provided
\* none of its dependencies has suffix step_counter_start - 1.
C11_ExactDepsAndGainsUnlessCollision ==
    Returned =>
        \A i \in 1..Len(steps) :
            /\ ExactDeps(i)
            /\ (\A k \in 1..Len(steps[i].dependencies) :
                    Suffix(steps[i].dependencies[k]) # step_counter_start - 1)
                  => GainsIffRetrievalRoot(i)

C11_Witness ==
    /\ Returned
    /\ Len(steps) = 2
    /\ steps[1].step_type = "RETRIEVAL" /\ steps[1].dependencies = <<>>
    /\ steps[2].step_type = "SYNTHESIS" /\ steps[2].dependencies = <<>>
    /\ result.steps[2].dependencies = <<result.web_step_id>>
    /\ result.steps[3].dependencies = <<>>

\* the URL of SEE_URL_QUERY without its final full stop
SEE_URL == <<"h", "t", "t", "p", ":", "/", "/", "a", ".", "b", "/", "c">>

\* C12: for a query with a URL and a plan of well-formed ids the call returns
\* len(P)+1 steps: first one new step step_<n> of kind WEB_INGESTION with no
\* dependencies, mode SEQUENTIAL and parameters {url: trimmed URL}, then the
\* renumbered steps of P in their original order; the returned id is step_<n>.
C12_PrependsOneWebStep ==
    called =>
        /\ ~result.raised
        /\ Len(result.steps) = Len(steps) + 1
        /\ result.steps[1].step_id = STEP_PREFIX \o IntStr(step_counter_start)
        /\ result.steps[1].step_type = "WEB_INGESTION"
        /\ result.steps[1].dependencies = <<>>
        /\ result.steps[1].execution_mode = "SEQUENTIAL"
        /\ result.steps[1].parameters = {<<"url", SEE_URL>>}
        /\ result.web_step_id = STEP_PREFIX \o IntStr(step_counter_start)
        /\ \A i \in 1..Len(steps) :
              /\ result.steps[i + 1].step_type = steps[i].step_type
              /\ result.steps[i + 1].description = steps[i].description
              /\ Suffix(result.steps[i + 1].step_id) = Suffix(steps[i].step_id) + 1

C12_Witness ==
    /\ called
    /\ Len(steps) = 2
    /\ steps[1].step_type # steps[2].step_type
    /\ step_counter_start = 1
    /\ Len(result.steps) = 3
    /\ result.steps[1].step_id = STEP_1
    /\ result.steps[2].step_type = steps[1].step_type

\* C16: the copy of every existing step keeps the step's kind, description,
\* parameters, execution mode, estimated time, estimated cost, priority,
\* required flag and metadata.
C16_OtherFieldsKept ==
    Returned =>
        \A i \in 1..Len(steps) :
            LET in == steps[i]
                out == result.steps[i + 1]
            IN /\ out.step_type = in.step_type
               /\ out.description = in.description
               /\ out.parameters = in.parameters
               /\ out.execution_mode = in.execution_mode
               /\ out.estimated_time_ms = in.estimated_time_ms
               /\ out.estimated_cost = in.estimated_cost
               /\ out.priority = in.priority
               /\ out.required = in.required
               /\ out.metadata = in.metadata

C16_Witness ==
    /\ Returned
    /\ Len(steps) = 2
    /\ steps[1].step_type = "RETRIEVAL" /\ steps[2].step_type = "SYNTHESIS"
    /\ result.steps[2].execution_mode = "PARALLEL"
    /\ result.steps[2].parameters = {<<"top_k", <<"5">>>>}
    /\ result.steps[3].metadata = "m_s"
    /\ result.steps[2].step_id # steps[1].step_id

\* C18: leaving a with block, normally or through an exception raised in its
\* body, runs close() once on the pipeline (every held handle gets a close
\* call), and the exception of the body, if any, leaves the with statement.
C18_ExitClosesAndPropagates ==
    [][(scope = "inside" /\ scope' = "exited") =>
          /\ closes' = closes + 1
          /\ \A h \in Range(HeldHandles) : closeCalls'[h] = closeCalls[h] + 1
          /\ propagated' = bodyError']_vars

C18_Witness ==
    /\ scope = "exited"
    /\ bodyError
    /\ propagated
    /\ closes = 1
    /\ closeCalls["storage"] = 1
    /\ neo4j # None
    /\ closeCalls["neo4j"] = 1

\* Place of a handle in the order the claim gives: ingestion sub-pipeline,
\* retrieval-side vector handle, query-side graph, ingestion-side graph.
ClaimedRank(h) ==
    CASE h = "storage" -> 1
      [] h = "retrieval_qdrant" -> 2
      [] h = "neo4j" -> 3
      [] h = "ingestor_neo4j" -> 4

\* C19: the close attempts of one close() come in the order ingestion
\* sub-pipeline, retrieval-side vector handle, query-side graph handle,
\* ingestion-side graph handle; a graph handle that was never built is left
\* out, nothing is raised for it and the others keep their order.
C19_CloseOrderFixed ==
    closes > 0 =>
        /\ \A i, j \in 1..Len(closeOrder) :
              i < j => ClaimedRank(closeOrder[i]) < ClaimedRank(closeOrder[j])
        /\ closeOrder[1] = "storage"
        /\ closeOrder[2] = "retrieval_qdrant"
        /\ ("neo4j" \in Range(closeOrder)) <=> (neo4j # None)
        /\ ("ingestor_neo4j" \in Range(closeOrder)) <=> (graph_ingestor # None)
        /\ ~closeRaised

C19_Witness ==
    /\ closes > 0
    /\ neo4j = None
    /\ graph_ingestor = None
    /\ closeOrder = <<"storage", "retrieval_qdrant">>
    /\ ~closeRaised

\* C20: after construction lexical retrieval is enabled on the retriever
\* exactly when the configured lexical weight is above 0, with the configured
\* weight when it is; with a weight of 0 or below it is disabled.
C20_LexicalEnabledIffPositiveWeight ==
    phase = "ready" =>
        /\ (retriever.lexical_enabled = "True") <=> (cfg.lexical_weight > 0)
        /\ cfg.lexical_weight > 0 => retriever.lexical_weight = cfg.lexical_weight
        /\ cfg.lexical_weight <= 0 => retriever.lexical_enabled = "False"

\* C21: an ingest() or query() call invokes the sub-pipeline operation once,
\* with the caller's arguments, and hands back what that invocation produced:
\* its result (a report with 0 chunks and failures included) or its exception.
C21_PureDelegation ==
    lastCall.op # "none" =>
        /\ Len(lastCall.sub_calls) = 1
        /\ lastCall.sub_calls[1] = lastCall.args
        /\ lastCall.out.raised = lastCall.sub.raised
        /\ lastCall.out = lastCall.sub

C21_Witness ==
    /\ lastCall.op = "ingest"
    /\ lastCall.sub_calls = <<<<"url_a">>>>
    /\ ~lastCall.out.raised
    /\ lastCall.out.chunks_ingested = 0
    /\ lastCall.out.failed_documents = <<"doc">>

----------------------------------------------------------------------------
(* API application: properties *)

\* C23: however lifespan ends (construction raised, the application body raised
\* while serving, or normal shutdown), no connection that construction opened
\* is left without a close: after a failed startup nothing is open, and after
\* the serving phase close() has run and called close on every held handle.
C23_LifespanAlwaysCloses ==
    /\ life = "failed" => \A c \in Conns : conn[c] # "open"
    /\ life \in {"stopped", "aborted"} =>
          /\ closes >= 1
          /\ \A h \in Range(HeldHandles) : closeCalls[h] >= 1

----------------------------------------------------------------------------
(* URL detection: properties *)

\* q has http:// or https:// at position i, followed by a non-space character.
IsUrlStart(q, i) ==
    \E scheme \in {HTTP_SCHEME, HTTPS_SCHEME} :
        /\ i + Len(scheme) <= Len(q)
        /\ SubSeq(q, i, i + Len(scheme) - 1) = scheme
        /\ ~IsSpace(q[i + Len(scheme)])

HasUrl(q) == \E i \in 1..Len(q) : IsUrlStart(q, i)

\* C13: when the query holds no URL the call returns the input plan itself,
\* unchanged and not renumbered, with None as the id, and raises nothing.
C13_NoUrlReturnsPlanUnchanged ==
    (called /\ ~HasUrl(query)) =>
        /\ ~result.raised
        /\ result.steps = steps
        /\ result.web_step_id = NoneId

C13_Witness ==
    /\ called
    /\ ~HasUrl(query)
    /\ query # <<>>
    /\ Len(steps) = 1
    /\ steps[1].step_id = STEP_X
    /\ result.steps = steps
    /\ result.web_step_id = NoneId

\* Start of the leftmost URL of q.
FirstUrlStart(q) ==
    CHOOSE i \in 1..Len(q) : IsUrlStart(q, i) /\ \A k \in 1..(i - 1) : ~IsUrlStart(q, k)

\* Last position of the whitespace-free stretch of q that starts at i.
MatchEnd(q, i) ==
    CHOOSE j \in i..Len(q) :
        /\ \A k \in i..j : ~IsSpace(q[k])
        /\ j = Len(q) \/ IsSpace(q[j + 1])

\* The leftmost URL of q, up to the next whitespace or the end of q.
MatchedUrl(q) == SubSeq(q, FirstUrlStart(q), MatchEnd(q, FirstUrlStart(q)))

\* The value stored under "url" in the parameters of the new step.
UrlParam == (CHOOSE p \in result.steps[1].parameters : p[1] = "url")[2]

\* the punctuation set as the claim lists it
ListedPunct == {".", ",", ";", ":", "!", "?", ")", "]", "'", "\"", "<", ">"}

\* C14: the stored URL is a prefix of the matched substring, does not end in a
\* character of the punctuation set, and what was cut off after it consists of
\* characters of the set only.
C14_TrailingPunctuationTrimmed ==
    Returned =>
        LET m == MatchedUrl(query)
            u == UrlParam
        IN /\ Len(u) <= Len(m)
           /\ SubSeq(m, 1, Len(u)) = u
           /\ u # <<>> => u[Len(u)] \notin ListedPunct
           /\ \A k \in (Len(u) + 1)..Len(m) : m[k] \in ListedPunct

C14_Witness ==
    /\ Returned
    /\ Len(MatchedUrl(query)) >= Len(UrlParam) + 2
    /\ \E k \in 1..Len(UrlParam) : UrlParam[k] = "."
    /\ UrlParam[Len(UrlParam)] = "e"

\* characters a scheme name may end in
SchemeLetters ==
    {"a", "b", "c", "d", "e", "f", "g", "h", "i", "j", "k", "l", "m", "n", "o", "p", "q", "r", "s", "t", "u", "v", "w", "x", "y", "z",
     "A", "B", "C", "D", "E", "F", "G", "H", "I", "J", "K", "L", "M", "N", "O", "P", "Q", "R", "S", "T", "U", "V", "W", "X", "Y", "Z"}

\* q holds some <scheme>:// followed by a non-space character.
HasSchemeUrl(q) ==
    \E i \in 2..Len(q) :
        /\ i + 3 <= Len(q)
        /\ q[i - 1] \in SchemeLetters
        /\ SubSeq(q, i, i + 2) = <<":", "/", "/">>
        /\ ~IsSpace(q[i + 3])

\* C15 as stated: a step is inserted exactly when the query holds scheme://
\* followed by one or more non-space characters, whatever the scheme.
C15_InsertedIffSchemeUrl ==
    (called /\ ~result.raised) =>
        ((result.web_step_id # NoneId) <=> HasSchemeUrl(query))

\* C15 amended: a step is inserted exactly when the query holds http:// or
\* https:// followed by one or more non-space characters; the URL used starts
\* at the leftmost such place, and the text after the first match does not
\* change what is returned.
C15_InsertedIffHttpUrlLeftmostWins ==
    (called /\ ~result.raised) =>
        /\ (result.web_step_id # NoneId) <=> HasUrl(query)
        /\ HasUrl(query) =>
              LET i == FirstUrlStart(query)
                  j == MatchEnd(query, i)
              IN /\ SubSeq(query, i, i + Len(UrlParam) - 1) = UrlParam
                 /\ i + Len(UrlParam) - 1 <= j
                 /\ result = PrependWebIngestionStep(SubSeq(query, 1, j), steps,
                                                     step_counter_start)

C15_Witness ==
    /\ Returned
    /\ \E k \in (FirstUrlStart(query) + 1)..Len(query) : IsUrlStart(query, k)
    /\ \E k \in 1..(FirstUrlStart(query) - 1) : SubSeq(query, k, k + 6) = HTTP_SCHEME
    /\ SubSeq(query, FirstUrlStart(query), FirstUrlStart(query) + Len(UrlParam) - 1) = UrlParam

\* C17: a call, with or without a URL in the query, leaves the query, the
\* counter, the input list and every field of every input step as they were.
C17_InputsNotMutated ==
    [][called' => (steps' = steps /\ query' = query
                     /\ step_counter_start' = step_counter_start)]_vars

C17_Witness ==
    /\ Returned
    /\ Len(steps) = 1
    /\ steps[1].step_id = STEP_0
    /\ steps[1].dependencies = <<>>
    /\ result.steps[2].step_id = STEP_1
    /\ result.steps[2].dependencies # <<>>

\* C22: in the plan returned for a well-formed acyclic input plan and a query
\* with a URL, every RETRIEVAL step depends on the WEB_INGESTION step, directly
\* or through other steps, so that it cannot start before ingestion completed.
C22_RetrievalWaitsForIngestion ==
    (/\ Returned
     /\ CanonicalIds(steps) /\ DistinctIds(steps) /\ Closed(steps) /\ Acyclic(steps)
     /\ NoSuffix(steps, step_counter_start - 1))
        => \A i \in 2..Len(result.steps) :
              result.steps[i].step_type = "RETRIEVAL"
                 => result.web_step_id
                       \in Reach(result.steps, Range(result.steps[i].dependencies), {})

\* The text after the last underscore of id is a non-empty run of decimal digits.
NumericSuffix(id) ==
    LET s == LastSegment(id)
    IN s # <<>> /\ \A k \in 1..Len(s) : IsDigit(s[k])

\* Some id the rewrite has to renumber lacks a numeric suffix: a step id, or a
\* dependency of a step that is not a RETRIEVAL step without dependencies.
Malformed(P) ==
    \E i \in 1..Len(P) :
        \/ ~NumericSuffix(P[i].step_id)
        \/ \E k \in 1..Len(P[i].dependencies) : ~NumericSuffix(P[i].dependencies[k])

\* C27: with a URL in the query, an id to renumber without a numeric suffix
\* makes the call raise: nothing is returned, no partly renumbered plan, and
\* the input steps stay as they were; without a URL the same plan is returned
\* unchanged and nothing is raised.
C27_MalformedIdRaisesOnlyWithUrl ==
    [][(called' /\ Malformed(steps)) =>
          /\ steps' = steps
          /\ HasUrl(query) =>
                /\ result'.raised
                /\ result'.steps = <<>>
                /\ result'.web_step_id = NoneId
          /\ ~HasUrl(query) =>
                /\ ~result'.raised
                /\ result'.steps = steps
                /\ result'.web_step_id = NoneId]_vars

C27_Witness ==
    /\ called
    /\ HasUrl(query)
    /\ Len(steps) = 2
    /\ NumericSuffix(steps[1].step_id)
    /\ ~NumericSuffix(steps[2].dependencies[1])
    /\ result.raised
    /\ result.steps = <<>>

----------------------------------------------------------------------------
(* Ingest jobs: properties *)

\* The status changes the claim allows, besides no change.
AllowedMoves ==
    {<<"pending", "running">>, <<"running", "done">>, <<"running", "error">>}

\* C24: a job is created as pending; its status is always pending, running,
\* done or error; it only moves pending -> running -> done | error; a done or
\* error job never changes again; a done job has chunks_ingested and failed,
\* an error job has error; the url of a job never changes.
C24_JobStateMachine ==
    /\ [](\A j \in JobIds :
            jobs[j] # NoJob =>
                /\ jobs[j].status \in {"pending", "running", "done", "error"}
                /\ {"status", "url"} \subseteq jobs[j].keys
                /\ jobs[j].status = "done" => {"chunks_ingested", "failed"} \subseteq jobs[j].keys
                /\ jobs[j].status = "error" => "error" \in jobs[j].keys)
    /\ [][\A j \in JobIds :
            /\ (jobs[j] = NoJob /\ jobs'[j] # NoJob) => jobs'[j].status = "pending"
            /\ jobs[j] # NoJob =>
                  /\ jobs'[j].url = jobs[j].url
                  /\ \/ jobs'[j].status = jobs[j].status
                     \/ <<jobs[j].status, jobs'[j].status>> \in AllowedMoves
                  /\ jobs[j].status \in {"done", "error"} => jobs'[j] = jobs[j]]_vars

C24_Witness ==
    /\ \E j, k \in JobIds :
          /\ jobs[j].status = "done" /\ jobs[j].url = "url_a"
          /\ jobs[k].status = "running" /\ jobs[k].url = "url_b"
    /\ lastPoll.code = 200
    /\ lastPoll.body.status = "pending"

\* C25: a finished background task has raised nothing; an exception of
\* pipeline.ingest is stored as status error with its text on the task's own
\* job, and only such jobs are in error; a report, also one with 0 chunks and
\* failures, is stored as status done with its chunk count and failure list.
C25_TaskNeverRaises ==
    \A j \in JobIds :
        /\ ~task[j].raised
        /\ jobs[j].status = "error" => (task[j].pc = "finished" /\ task[j].outcome.raised)
        /\ task[j].pc = "finished" =>
              IF task[j].outcome.raised
              THEN /\ jobs[j].status = "error"
                   /\ jobs[j].error = task[j].outcome.error
              ELSE /\ jobs[j].status = "done"
                   /\ jobs[j].chunks_ingested = task[j].outcome.chunks_ingested
                   /\ jobs[j].failed = task[j].outcome.failed_documents

C25_Witness ==
    \E j, k \in JobIds :
        /\ task[j].pc = "finished"
        /\ ~task[j].outcome.raised
        /\ task[j].outcome.chunks_ingested = 0
        /\ task[j].outcome.failed_documents # <<>>
        /\ jobs[j].status = "done"
        /\ jobs[j].failed = <<"doc">>
        /\ jobs[k].status = "error"
        /\ jobs[k].error = "CrawlError"

\* C26: every accepted job, pending or running, reaches done or error, whatever
\* the other jobs do, when its task is run and pipeline.ingest completes.
C26_JobsTerminate ==
    \A j \in JobIds :
        (jobs[j].status \in {"pending", "running"}) ~> (jobs[j].status \in {"done", "error"})

C26_Witness ==
    /\ \A j \in JobIds : jobs[j].status \in {"done", "error"} /\ task[j].pc = "finished"
    /\ \E j \in JobIds : jobs[j].status = "error"

====
